---- MODULE Spec2Model ----
(***************************************************************************)
(* A model of cfproxy: the proxy server of src/main.rs (startup, the keyed *)
(* rate limiter consulted per connection, the per-request service) and the *)
(* library functions of src/lib.rs (get_proxy_req, get_real_ip_addr,       *)
(* proxy_request_to_cf).                                                   *)
(*                                                                         *)
(* Text (environment values, header values) is a sequence of tokens; a     *)
(* token is a one-character string where the code looks at characters (a   *)
(* number, an IP literal) and a whole word elsewhere.                      *)
(***************************************************************************)
EXTENDS Integers, Sequences, FiniteSets, TLC

\* ------------------------------------------------------------------ bounds

\* Connections the model accepts.
MaxConns == 2
\* Requests the model receives, over all connections.
MaxReqs == 2
\* Ticks of waiting at the gate that are counted for a connection.
MaxWait == 4

\* ------------------------------------------------------------- environment

Unset == [set |-> FALSE, val |-> <<>>]
EnvVal(s) == [set |-> TRUE, val |-> s]

\* env::var(..).unwrap_or(String::from(default))
UnwrapOr(v, default) == IF v.set THEN v.val ELSE default

Digits == <<"0", "1", "2", "3", "4", "5", "6", "7", "8", "9">>
IsDigit(c) == \E i \in 1..10 : Digits[i] = c
DigitVal(c) == (CHOOSE i \in 1..10 : Digits[i] = c) - 1

\* u32::MAX is 4294967295: its tens and its last digit.
U32MaxTens == 429496729
U32MaxLast == 5

RECURSIVE ParseDigits(_, _)
\* The digits of s accumulated onto acc: -1 on a non-digit or on overflow.
ParseDigits(s, acc) ==
    IF s = <<>> THEN acc
    ELSE IF ~IsDigit(Head(s)) THEN -1
    ELSE LET d == DigitVal(Head(s))
         IN  IF acc > U32MaxTens \/ (acc = U32MaxTens /\ d > U32MaxLast) THEN -1
             ELSE ParseDigits(Tail(s), acc * 10 + d)

\* str::parse::<u32>: an optional "+", then one or more decimal digits.
ParseU32(s) ==
    LET body == IF s # <<>> /\ Head(s) = "+" THEN Tail(s) ELSE s
        n    == IF body = <<>> THEN -1 ELSE ParseDigits(body, 0)
    IN  IF n < 0 THEN [ok |-> FALSE, val |-> 0] ELSE [ok |-> TRUE, val |-> n]

\* NonZeroU32::new
NonZeroU32(n) == IF n = 0 THEN [some |-> FALSE, val |-> 0] ELSE [some |-> TRUE, val |-> n]

\* The rate installed when REQ_LIMIT_PER_SEC is unset.
DefaultReqLimit == <<"6">>

\* lazy_static REQ_LIMIT_PER_SEC followed by NonZeroU32::new(..).expect(..):
\* the rate, or a panic.
ReqLimitOf(v) ==
    LET p == ParseU32(UnwrapOr(v, DefaultReqLimit))
    IN  IF ~p.ok THEN [panic |-> TRUE, rate |-> 0]
        ELSE IF ~NonZeroU32(p.val).some THEN [panic |-> TRUE, rate |-> 0]
        ELSE [panic |-> FALSE, rate |-> p.val]

\* Values of REQ_LIMIT_PER_SEC the model starts from.
ReqLimitEnvs ==
    { Unset, EnvVal(<<"1">>), EnvVal(<<"2">>), EnvVal(<<"0">>),
      EnvVal(<<"-", "1">>), EnvVal(<<"a", "b", "c">>), EnvVal(<<>>) }

\* Bytes a header value may not hold.
ControlTokens == {"\n", "\r"}

\* HeaderValue::from_str: an error on a control byte.
HeaderValueFromStr(s) ==
    IF \E i \in 1..Len(s) : s[i] \in ControlTokens
    THEN [ok |-> FALSE, val |-> <<>>]
    ELSE [ok |-> TRUE, val |-> s]

\* Values of CF_API_KEY the model starts from.
ApiKeyEnvs == { Unset, EnvVal(<<"key-A">>) }

\* ------------------------------------------------------------------- URIs

NoneStr == "<none>"
UpstreamHost == "api.curseforge.com"

\* A Uri: scheme and authority (NoneStr when absent), the path data ("" when
\* empty) and the query (NoneStr when there is no "?").
MkUri(scheme, authority, path, query) ==
    [scheme |-> scheme, authority |-> authority, path |-> path, query |-> query]

\* Uri::has_path
HasPath(uri) == uri.path # "" \/ uri.scheme # NoneStr

\* Uri::path: "/" for an empty path of a URI that has one.
UriPath(uri) == IF HasPath(uri) THEN (IF uri.path = "" THEN "/" ELSE uri.path) ELSE ""

\* Uri::query
UriQuery(uri) == uri.query

NonePQ == [some |-> FALSE, path |-> "", query |-> NoneStr]

\* Uri::into_parts
IntoParts(uri) ==
    [scheme |-> uri.scheme,
     authority |-> uri.authority,
     path_and_query |-> IF HasPath(uri)
                        THEN [some |-> TRUE, path |-> uri.path, query |-> uri.query]
                        ELSE NonePQ]

\* Uri::from_parts: a scheme needs an authority and a path; an authority with
\* a path needs a scheme.
FromParts(parts) ==
    IF parts.scheme # NoneStr /\ parts.authority = NoneStr
        THEN [ok |-> FALSE, err |-> "AuthorityMissing", uri |-> MkUri(NoneStr, NoneStr, "", NoneStr)]
    ELSE IF parts.scheme # NoneStr /\ ~parts.path_and_query.some
        THEN [ok |-> FALSE, err |-> "PathAndQueryMissing", uri |-> MkUri(NoneStr, NoneStr, "", NoneStr)]
    ELSE IF parts.scheme = NoneStr /\ parts.authority # NoneStr /\ parts.path_and_query.some
        THEN [ok |-> FALSE, err |-> "SchemeMissing", uri |-> MkUri(NoneStr, NoneStr, "", NoneStr)]
    ELSE [ok |-> TRUE, err |-> NoneStr,
          uri |-> MkUri(parts.scheme, parts.authority,
                        parts.path_and_query.path, parts.path_and_query.query)]

\* A faulty variant: an authority the inbound request names is kept.
SetUpstreamTargetKeepAuthority(uri) ==
    FromParts([IntoParts(uri) EXCEPT
        !.authority = IF uri.authority = NoneStr THEN UpstreamHost ELSE uri.authority,
        !.scheme = "https"])

\* A faulty variant: the query is not copied.
SetUpstreamTargetDropQuery(uri) ==
    FromParts([IntoParts(uri) EXCEPT
        !.authority = UpstreamHost, !.scheme = "https", !.path_and_query.query = NoneStr])

\* Set authority part of URL to the Curseforge API & scheme to HTTPS: the
\* authority and the scheme of the upstream put over the inbound ones, the
\* rest of the parts kept.
SetUpstreamTarget(uri) ==
    FromParts([IntoParts(uri) EXCEPT !.authority = UpstreamHost, !.scheme = "https"])

\* ---------------------------------------------------------------- headers

HeaderNames == {"host", "x-api-key", "fly-client-ip", "accept"}

\* A HeaderMap: the values of each name, in order; none when absent.
NoHeaders == [n \in HeaderNames |-> <<>>]

\* HeaderMap::insert: the value replaces every value the name had.
HeaderInsert(h, name, v) == [h EXCEPT ![name] = <<v>>]

\* HeaderMap::append
HeaderAppend(h, name, v) == [h EXCEPT ![name] = Append(@, v)]

\* HeaderMap::get: the first value of the name.
HeaderGet(h, name) ==
    IF h[name] = <<>> THEN [some |-> FALSE, val |-> <<>>] ELSE [some |-> TRUE, val |-> h[name][1]]

HostValue == <<UpstreamHost>>

\* A faulty variant: a fixed Accept header is set as well.
SetHostAndAcceptHeader(h) ==
    HeaderInsert(HeaderInsert(h, "host", HostValue), "accept", <<"application/json">>)

\* Set HOST header, otherwise CF will reject requests.
SetHostHeader(h) == HeaderInsert(h, "host", HostValue)

\* A faulty variant: append instead of insert.
SetApiKeyHeaderAppend(h, key) == HeaderAppend(h, "x-api-key", key)

\* Set authentification header.
SetApiKeyHeader(h, key) == HeaderInsert(h, "x-api-key", key)

\* ------------------------------------------------------------ transformer

\* A request: method, uri, headers and body.
MkReq(method, uri, headers, body) ==
    [method |-> method, uri |-> uri, headers |-> headers, body |-> body]

\* The outcome of dereferencing lazy_static CF_API_KEY: the value of the
\* variable, or the panic of expect().
DerefApiKey(env) ==
    IF env.set THEN [panic |-> FALSE, val |-> env.val] ELSE [panic |-> TRUE, val |-> <<>>]

\* The body of get_proxy_request and of get_proxy_req, which are the same
\* text: the outbound request, or the panic of the unwrap() that failed.
TransformBody(req, keyEnv) ==
    LET u   == SetUpstreamTarget(req.uri)
        key == DerefApiKey(keyEnv)
        hv  == HeaderValueFromStr(key.val)
    IN  IF ~u.ok THEN [outcome |-> "panic_uri", req |-> req]
        ELSE IF key.panic THEN [outcome |-> "panic_key", req |-> req]
        ELSE IF ~hv.ok THEN [outcome |-> "panic_value", req |-> req]
        ELSE [outcome |-> "ok",
              req |-> [req EXCEPT !.uri = u.uri,
                                  !.headers = SetApiKeyHeader(SetHostHeader(@), hv.val)]]

\* src/main.rs
get_proxy_request(req, keyEnv) == TransformBody(req, keyEnv)

\* src/lib.rs
get_proxy_req(req, keyEnv) == TransformBody(req, keyEnv)

\* ----------------------------------------------------------- IP addresses

V4(a, b, c, d) == [v |-> 4, g |-> <<a, b, c, d>>]
V6(groups) == [v |-> 6, g |-> groups]

RECURSIVE SplitOn(_, _, _)
\* The pieces of s between the separators, cur being the piece in progress.
SplitOn(s, sep, cur) ==
    IF s = <<>> THEN <<cur>>
    ELSE IF Head(s) = sep THEN <<cur>> \o SplitOn(Tail(s), sep, <<>>)
    ELSE SplitOn(Tail(s), sep, Append(cur, Head(s)))

Split(s, sep) == SplitOn(s, sep, <<>>)

\* One decimal octet: one to three digits, no leading zero, at most 255.
ParseOctet(s) ==
    IF Len(s) \notin 1..3 THEN -1
    ELSE IF Len(s) > 1 /\ Head(s) = "0" THEN -1
    ELSE LET n == ParseDigits(s, 0) IN IF n > 255 THEN -1 ELSE n

\* str::parse::<Ipv4Addr>: four octets separated by dots.
ParseIpv4(s) ==
    LET parts == Split(s, ".")
    IN  IF Len(parts) = 4 /\ \A i \in 1..4 : ParseOctet(parts[i]) >= 0
        THEN [ok |-> TRUE,
              addr |-> V4(ParseOctet(parts[1]), ParseOctet(parts[2]),
                          ParseOctet(parts[3]), ParseOctet(parts[4]))]
        ELSE [ok |-> FALSE, addr |-> V4(0, 0, 0, 0)]

HexDigits == <<"0", "1", "2", "3", "4", "5", "6", "7", "8", "9", "a", "b", "c", "d", "e", "f">>
IsHex(c) == \E i \in 1..16 : HexDigits[i] = c
HexVal(c) == (CHOOSE i \in 1..16 : HexDigits[i] = c) - 1

RECURSIVE HexNum(_, _)
HexNum(s, acc) == IF s = <<>> THEN acc ELSE HexNum(Tail(s), acc * 16 + HexVal(Head(s)))

\* One group of an IPv6 literal: one to four hex digits.
ParseGroup(s) ==
    IF Len(s) \in 1..4 /\ \A i \in 1..Len(s) : IsHex(s[i]) THEN HexNum(s, 0) ELSE -1

\* The groups of a colon-separated run, none for the empty run; <<-1>> when
\* a group is no hex number.
Groups(s) ==
    IF s = <<>> THEN <<>>
    ELSE LET parts == Split(s, ":")
         IN  IF \A i \in 1..Len(parts) : ParseGroup(parts[i]) >= 0
             THEN [i \in 1..Len(parts) |-> ParseGroup(parts[i])]
             ELSE <<-1>>

Zeros(n) == [i \in 1..n |-> 0]

\* str::parse::<Ipv6Addr>: eight groups, or fewer around one "::" (the form
\* with a dotted IPv4 tail is not among the inputs and is refused here).
ParseIpv6(s) ==
    LET bad == [ok |-> FALSE, addr |-> V6(Zeros(8))]
        gaps == {i \in 1..(Len(s) - 1) : s[i] = ":" /\ s[i + 1] = ":"}
    IN  IF gaps = {}
        THEN LET g == Groups(s)
             IN  IF Len(g) = 8 /\ g # <<-1>> THEN [ok |-> TRUE, addr |-> V6(g)] ELSE bad
        ELSE IF Cardinality(gaps) > 1 THEN bad
        ELSE LET i == CHOOSE j \in gaps : TRUE
                 h == Groups(SubSeq(s, 1, i - 1))
                 t == Groups(SubSeq(s, i + 2, Len(s)))
             IN  IF h = <<-1>> \/ t = <<-1>> \/ Len(h) + Len(t) > 7 THEN bad
                 ELSE [ok |-> TRUE, addr |-> V6(h \o Zeros(8 - Len(h) - Len(t)) \o t)]

\* Tokens that are no visible ASCII: HeaderValue::to_str fails on them.
OpaqueTokens == {"<0x80>"}

\* HeaderValue::to_str
ToStr(v) ==
    IF \E i \in 1..Len(v) : v[i] \in OpaqueTokens
    THEN [ok |-> FALSE, val |-> <<>>]
    ELSE [ok |-> TRUE, val |-> v]

\* Returns the IP address of the remote connection: the address in the header
\* 'Fly-Client-IP' when it parses, remote_addr otherwise; the panic of
\* to_str().unwrap() on a value that is no text.
get_real_ip_addr(req, remote_addr) ==
    LET h == HeaderGet(req.headers, "fly-client-ip")
        t == ToStr(h.val)
    IN  IF ~h.some THEN [panic |-> FALSE, addr |-> remote_addr]
        ELSE IF ~t.ok THEN [panic |-> TRUE, addr |-> remote_addr]
        ELSE IF t.val # <<>> /\ ParseIpv4(t.val).ok
            THEN [panic |-> FALSE, addr |-> ParseIpv4(t.val).addr]
        ELSE IF t.val # <<>> /\ ParseIpv6(t.val).ok
            THEN [panic |-> FALSE, addr |-> ParseIpv6(t.val).addr]
        ELSE [panic |-> FALSE, addr |-> remote_addr]

\* ------------------------------------------------------------ rate limiter

\* The keyed limiter of Quota::per_second(rate): per key a bucket of `rate`
\* cells, full when the key is first seen, one cell back every 1/rate second.
\* Time passes in ticks of 1/rate second.
Absent == -1

\* The cells the key's bucket holds now: a key not seen yet has a full one.
Cells(b, key, rate) == IF b[key] = Absent THEN rate ELSE b[key]

\* A faulty variant: one bucket that every key draws from.
check_keyOneBucket(b, key, rate) ==
    IF Cells(b, key, rate) > 0
    THEN [ok |-> TRUE, buckets |-> [k \in DOMAIN b |-> Cells(b, key, rate) - 1]]
    ELSE [ok |-> FALSE, buckets |-> [k \in DOMAIN b |-> 0]]

\* RateLimiter::check_key: takes one cell when the bucket holds one.
check_key(b, key, rate) ==
    IF Cells(b, key, rate) > 0
    THEN [ok |-> TRUE, buckets |-> [b EXCEPT ![key] = Cells(b, key, rate) - 1]]
    ELSE [ok |-> FALSE, buckets |-> [b EXCEPT ![key] = 0]]

\* One tick of the clock: every bucket that exists gets one cell back, up to
\* its capacity.
Refill(b, rate) ==
    [k \in DOMAIN b |-> IF b[k] = Absent THEN Absent
                        ELSE IF b[k] < rate THEN b[k] + 1 ELSE rate]

\* A faulty variant: a jitter of up to two seconds.
JitterTicksTwoSeconds(rate) == 2 * rate

\* Jitter::up_to(Duration::from_secs(1)), in ticks: one second is `rate` ticks.
JitterTicks(rate) == rate

\* ------------------------------------------------------------------ server

\* Peer addresses connections come from.
Peers == { V4(127, 0, 0, 1), V4(203, 0, 113, 5) }

ClientIpV4 == <<"1", "0", ".", "0", ".", "0", ".", "9">>
ClientIpV6 == <<":", ":", "1">>

\* Requests the clients of the server send.
ReqInputs ==
    { MkReq("POST", MkUri("http", "evil.example", "", NoneStr),
            [NoHeaders EXCEPT !["host"] = << <<"evil.example">> >>,
                              !["x-api-key"] = << <<"client-key">> >>,
                              !["fly-client-ip"] = <<ClientIpV4>>],
            "payload"),
      MkReq("CONNECT", MkUri(NoneStr, "evil.example:443", "", NoneStr),
            NoHeaders, "") }

NoReq == MkReq(NoneStr, MkUri(NoneStr, NoneStr, "", NoneStr), NoHeaders, "")
NoResp == [status |-> 0, headers |-> NoneStr, body |-> NoneStr]
NoLog == [kind |-> NoneStr, key |-> V4(0, 0, 0, 0), path |-> NoneStr, status |-> 0,
          detail |-> <<>>]

\* What the upstream answers when the call succeeds.
UpstreamResponses ==
    { [status |-> 404, headers |-> "content-type: application/json", body |-> "not found"] }

\* The ways the upstream call fails.
UpstreamErrors == {"connection refused"}

\* A faulty variant: the error is passed on to the client.
ProxyErrorResponseRaw(err) == [status |-> 500, headers |-> "", body |-> err]

\* The response the proxy makes up when the upstream call fails with `err`.
ProxyErrorResponse(err) ==
    [status |-> 500, headers |-> "", body |-> "Proxy Server Error while reading request"]

\* A faulty variant: an upstream error status is answered with the proxy's 500.
RelayOkOnly(resp) == IF resp.status >= 400 THEN ProxyErrorResponse("") ELSE resp

\* Ok(resp): the response of the upstream is returned as it is.
Relay(resp) == resp

\* "[{remote_addr}] <-> {path} => {status}"
LogRelayed(remote_addr, proxy_req, resp) ==
    [kind |-> "relayed", key |-> remote_addr, path |-> UriPath(proxy_req.uri),
     status |-> resp.status, detail |-> <<>>]

\* A faulty variant: the request sent is printed with the failure.
LogFailedWithRequest(remote_addr, proxy_req, err) ==
    [kind |-> "failed", key |-> remote_addr, path |-> UriPath(proxy_req.uri),
     status |-> 0, detail |-> <<err>> \o proxy_req.headers["x-api-key"][1]]

\* "[{remote_addr}] <!> {path} failed: {err:#?}" (src/lib.rs)
LogFailed(remote_addr, proxy_req, err) ==
    [kind |-> "failed", key |-> remote_addr, path |-> UriPath(proxy_req.uri),
     status |-> 0, detail |-> <<err>>]

\* "[{remote_addr}] <!> {path} failed" (src/main.rs)
LogFailedPlain(remote_addr, proxy_req) ==
    [kind |-> "failed", key |-> remote_addr, path |-> UriPath(proxy_req.uri),
     status |-> 0, detail |-> <<>>]

\* What the upstream call comes to: an answer or a failure.
UpOk(resp) == [ok |-> TRUE, resp |-> resp, err |-> NoneStr]
UpErr(err) == [ok |-> FALSE, resp |-> NoResp, err |-> err]

\* proxy_request_to_cf, given what the upstream call comes to: what is
\* sent, returned and logged.
proxy_request_to_cf(req, keyEnv, remote_addr, up) ==
    LET t == get_proxy_req(req, keyEnv)
    IN  IF t.outcome # "ok"
        THEN [outcome |-> t.outcome, out |-> t.req, resp |-> NoResp, log |-> NoLog]
        ELSE IF up.ok
        THEN [outcome |-> "ok", out |-> t.req, resp |-> Relay(up.resp),
              log |-> LogRelayed(remote_addr, t.req, up.resp)]
        ELSE [outcome |-> up.err, out |-> t.req, resp |-> ProxyErrorResponse(up.err),
              log |-> LogFailed(remote_addr, t.req, up.err)]

\* The closure of service_fn in main, given what the upstream call comes to.
service_fn(req, keyEnv, remote_addr, up) ==
    LET t == get_proxy_request(req, keyEnv)
    IN  IF t.outcome # "ok"
        THEN [outcome |-> t.outcome, out |-> t.req, resp |-> NoResp, log |-> NoLog]
        ELSE IF up.ok
        THEN [outcome |-> "ok", out |-> t.req, resp |-> Relay(up.resp),
              log |-> LogRelayed(remote_addr, t.req, up.resp)]
        ELSE [outcome |-> up.err, out |-> t.req, resp |-> ProxyErrorResponse(up.err),
              log |-> LogFailedPlain(remote_addr, t.req)]

VARIABLES
    env,        \* the environment: CF_API_KEY and REQ_LIMIT_PER_SEC
    phase,      \* "init", "listening" (the listener is bound), "exited"
    keyCell,    \* lazy_static CF_API_KEY: "uninit", "ready", "poisoned"
    rate,       \* the rate of the quota, 0 before startup
    buckets,    \* the limiter's state: the cells of each key, Absent if unseen
    conns,      \* the connections accepted, in order
    reqs,       \* the requests received, in order
    call        \* a library function called on its own: input and result

vars == <<env, phase, keyCell, rate, buckets, conns, reqs, call>>

NoCall == [fn |-> NoneStr, req |-> NoReq, keyEnv |-> Unset, peer |-> V4(0, 0, 0, 0),
           done |-> FALSE, outcome |-> NoneStr, out |-> NoReq, addr |-> V4(0, 0, 0, 0),
           up |-> NoResp, resp |-> NoResp, log |-> NoLog]

Init ==
    /\ env \in [apiKey : ApiKeyEnvs, reqLimit : ReqLimitEnvs]
    /\ phase = "init"
    /\ keyCell = "uninit"
    /\ rate = 0
    /\ buckets = [p \in Peers |-> Absent]
    /\ conns = <<>>
    /\ reqs = <<>>
    /\ call = NoCall

\* A faulty variant: the listener is bound whatever the rate.
StartupUnchecked ==
    /\ phase = "init"
    /\ phase' = "listening"
    /\ rate' = ReqLimitOf(env.reqLimit).rate
    /\ UNCHANGED <<env, keyCell, buckets, conns, reqs, call>>

\* main up to Server::bind: the quota is built from REQ_LIMIT_PER_SEC, whose
\* expect() calls end the process; CF_API_KEY is not read here.
Startup ==
    /\ phase = "init"
    /\ LET q == ReqLimitOf(env.reqLimit)
       IN  /\ phase' = IF q.panic THEN "exited" ELSE "listening"
           /\ rate' = q.rate
    /\ UNCHANGED <<env, keyCell, buckets, conns, reqs, call>>

\* make_service_fn: a connection from `peer` is accepted and its task starts.
Accept(peer) ==
    /\ phase = "listening"
    /\ Len(conns) < MaxConns
    /\ conns' = Append(conns, [peer |-> peer, st |-> "gate", sleep |-> 0,
                               delayed |-> FALSE, hit |-> FALSE, took |-> 0,
                               waited |-> 0])
    /\ UNCHANGED <<env, phase, keyCell, rate, buckets, reqs, call>>

\* The key the connection's task hands to the limiter: remote_addr, the
\* address of the socket's peer.
LimiterKey(c) == conns[c].peer

\* until_key_ready_with_jitter, one turn of its loop: the key's bucket is
\* checked; without a cell the task sleeps until one is due, plus the jitter.
UntilKeyReady(c) ==
    /\ c \in 1..Len(conns)
    /\ conns[c].st = "gate"
    /\ conns[c].sleep = 0
    /\ LET r == check_key(buckets, LimiterKey(c), rate)
       IN  /\ buckets' = r.buckets
           /\ IF r.ok
              THEN conns' = [conns EXCEPT ![c].st = "admitted", ![c].took = @ + 1]
              ELSE \E j \in 0..JitterTicks(rate) :
                      conns' = [conns EXCEPT ![c].sleep = 1 + j, ![c].delayed = TRUE]
    /\ UNCHANGED <<env, phase, keyCell, rate, reqs, call>>

\* The check_key that follows: a cell is taken if there is one, "Rate limit
\* was hit" is logged if there is none; the service is handed out either way.
CheckAndLog(c) ==
    /\ c \in 1..Len(conns)
    /\ conns[c].st = "admitted"
    /\ LET r == check_key(buckets, LimiterKey(c), rate)
       IN  /\ buckets' = r.buckets
           /\ conns' = [conns EXCEPT ![c].st = "ready",
                                     ![c].hit = ~r.ok,
                                     ![c].took = IF r.ok THEN @ + 1 ELSE @]
    /\ UNCHANGED <<env, phase, keyCell, rate, reqs, call>>

\* hyper reads the next request off a connection whose service is made.
ReadRequest(c, inb) ==
    /\ c \in 1..Len(conns)
    /\ conns[c].st = "ready"
    /\ Len(reqs) < MaxReqs
    /\ reqs' = Append(reqs, [conn |-> c, inb |-> inb, st |-> "pending", fresh |-> TRUE,
                             out |-> NoReq, upstream |-> NoneStr,
                             resp |-> NoResp, log |-> NoLog])
    /\ UNCHANGED <<env, phase, keyCell, rate, buckets, conns, call>>

\* The requests of one connection are served in the order they came.
IsNext(r) ==
    \A q \in 1..(r - 1) : reqs[q].conn = reqs[r].conn => reqs[q].st \in {"done", "aborted"}

\* The state of lazy_static CF_API_KEY after a call of the transformer.
KeyCellAfter(cell, outcome) ==
    CASE outcome = "panic_uri" -> cell
      [] outcome = "panic_key" -> "poisoned"
      [] OTHER -> "ready"

\* service_fn up to client.request(..): the request is transformed and sent
\* upstream; a panic of the transformer ends the connection's task.
Forward(r) ==
    /\ r \in 1..Len(reqs)
    /\ reqs[r].st = "pending"
    /\ conns[reqs[r].conn].st = "ready"
    /\ IsNext(r)
    /\ LET t == get_proxy_request(reqs[r].inb, env.apiKey)
       IN  /\ keyCell' = KeyCellAfter(keyCell, t.outcome)
           /\ IF t.outcome = "ok"
              THEN /\ reqs' = [reqs EXCEPT ![r].st = "forwarded", ![r].out = t.req]
                   /\ conns' = conns
              ELSE /\ reqs' = [reqs EXCEPT ![r].st = "aborted"]
                   /\ conns' = [conns EXCEPT ![reqs[r].conn].st = "closed"]
    /\ UNCHANGED <<env, phase, rate, buckets, call>>

\* client.request(..) answers: the response is logged and relayed.
UpstreamOk(r, resp) ==
    /\ r \in 1..Len(reqs)
    /\ reqs[r].st = "forwarded"
    /\ reqs' = [reqs EXCEPT ![r].st = "done", ![r].upstream = "ok", ![r].resp = Relay(resp),
                            ![r].log = LogRelayed(conns[reqs[r].conn].peer,
                                                  reqs[r].out, resp)]
    /\ UNCHANGED <<env, phase, keyCell, rate, buckets, conns, call>>

\* client.request(..) fails: the failure is logged and a 500 is answered.
UpstreamErr(r, err) ==
    /\ r \in 1..Len(reqs)
    /\ reqs[r].st = "forwarded"
    /\ reqs' = [reqs EXCEPT ![r].st = "done", ![r].upstream = err,
                            ![r].resp = ProxyErrorResponse(err),
                            ![r].log = LogFailedPlain(conns[reqs[r].conn].peer,
                                                      reqs[r].out)]
    /\ UNCHANGED <<env, phase, keyCell, rate, buckets, conns, call>>

\* 1/rate second passes: buckets refill, sleepers get closer to waking, and
\* the requests read so far are no longer of this instant.
Tick ==
    /\ phase = "listening"
    /\ buckets' = Refill(buckets, rate)
    /\ conns' = [c \in 1..Len(conns) |->
                    [conns[c] EXCEPT !.sleep = IF @ > 0 THEN @ - 1 ELSE 0,
                                     !.waited = IF conns[c].sleep > 0 /\ @ < MaxWait
                                                THEN @ + 1 ELSE @]]
    /\ reqs' = [r \in 1..Len(reqs) |-> [reqs[r] EXCEPT !.fresh = FALSE]]
    /\ UNCHANGED <<env, phase, keyCell, rate, call>>

Next ==
    \/ Startup
    \/ \E p \in Peers : Accept(p)
    \/ \E c \in 1..MaxConns : UntilKeyReady(c)
    \/ \E c \in 1..MaxConns : CheckAndLog(c)
    \/ \E c \in 1..MaxConns, inb \in ReqInputs : ReadRequest(c, inb)
    \/ \E r \in 1..MaxReqs : Forward(r)
    \/ \E r \in 1..MaxReqs, resp \in UpstreamResponses : UpstreamOk(r, resp)
    \/ \E r \in 1..MaxReqs, err \in UpstreamErrors : UpstreamErr(r, err)
    \/ Tick

Spec == Init /\ [][Next]_vars

\* The handler tasks are scheduled fairly and the clock runs: a step that
\* stays possible is taken.
FairSpec ==
    /\ Spec
    /\ WF_vars(Startup)
    /\ WF_vars(Tick)
    /\ \A c \in 1..MaxConns : WF_vars(UntilKeyReady(c)) /\ WF_vars(CheckAndLog(c))
    /\ \A r \in 1..MaxReqs :
          /\ WF_vars(Forward(r))
          /\ WF_vars((\E resp \in UpstreamResponses : UpstreamOk(r, resp))
                        \/ (\E err \in UpstreamErrors : UpstreamErr(r, err)))

\* ------------------------------------------- the library, called directly

\* Request targets: origin form, absolute form with and without a path,
\* authority form, asterisk form.
CallUris ==
    { MkUri(NoneStr, NoneStr, "/v1/mods/search", "gameId=432"),
      MkUri(NoneStr, NoneStr, "/", NoneStr),
      MkUri("http", "localhost:3000", "", NoneStr),
      MkUri("http", "evil.example", "/v1/games", "index=0"),
      MkUri("https", UpstreamHost, "/v1/games", NoneStr),
      MkUri(NoneStr, "evil.example:443", "", NoneStr),
      MkUri(NoneStr, NoneStr, "*", NoneStr) }

\* Values of the Fly-Client-IP header: absent, IPv4, IPv6, empty, an octet
\* out of range, a host name, bytes that are no text.
CallClientIps ==
    { <<>>, <<ClientIpV4>>, <<ClientIpV6>>, << <<>> >>,
      << <<"2", "5", "6", ".", "0", ".", "0", ".", "1">> >>,
      << <<"h", "o", "s", "t">> >>, << <<"<0x80>">> >>,
      << <<"f", "e", "8", "0", ":", ":", "1", ":", "2">> >> }

CallHeaders ==
    { [NoHeaders EXCEPT !["host"] = host, !["x-api-key"] = key,
                        !["fly-client-ip"] = ip, !["accept"] = accept] :
        host \in { <<>>, << <<"evil.example">> >> },
        key \in { <<>>, << <<"client-key">> >>, << <<"client-key">>, <<"key-A">> >> },
        ip \in CallClientIps,
        accept \in { <<>>, << <<"text/plain">> >> } }

CallReqs ==
    { MkReq(m, u, h, b) : m \in {"GET", "POST"}, u \in CallUris, h \in CallHeaders,
                          b \in {"", "payload"} }

CallKeyEnvs ==
    { Unset, EnvVal(<<"key-A">>), EnvVal(<<"key-B">>), EnvVal(<<"key-C", "\n">>) }

CallResponses ==
    { [status |-> 200, headers |-> "content-type: text/plain", body |-> "CurseForge Core"],
      [status |-> 404, headers |-> "content-type: application/json", body |-> "not found"],
      [status |-> 500, headers |-> "retry-after: 5", body |-> "upstream error"] }

CallErrors == {"connection refused", "timed out"}

InitCall ==
    /\ env = [apiKey |-> Unset, reqLimit |-> Unset]
    /\ phase = "init"
    /\ keyCell = "uninit"
    /\ rate = 0
    /\ buckets = [p \in Peers |-> Absent]
    /\ conns = <<>>
    /\ reqs = <<>>
    /\ \E fn \in {"get_proxy_req", "get_proxy_request", "get_real_ip_addr",
                  "proxy_request_to_cf", "service_fn"},
          req \in CallReqs, keyEnv \in CallKeyEnvs, peer \in Peers :
          call = [NoCall EXCEPT !.fn = fn, !.req = req, !.keyEnv = keyEnv, !.peer = peer]

Idle == UNCHANGED <<env, phase, keyCell, rate, buckets, conns, reqs>>

CallGetProxyReq ==
    /\ call.fn = "get_proxy_req" /\ ~call.done
    /\ LET t == get_proxy_req(call.req, call.keyEnv)
       IN  call' = [call EXCEPT !.done = TRUE, !.outcome = t.outcome, !.out = t.req]
    /\ Idle

CallGetProxyRequest ==
    /\ call.fn = "get_proxy_request" /\ ~call.done
    /\ LET t == get_proxy_request(call.req, call.keyEnv)
       IN  call' = [call EXCEPT !.done = TRUE, !.outcome = t.outcome, !.out = t.req]
    /\ Idle

CallGetRealIpAddr ==
    /\ call.fn = "get_real_ip_addr" /\ ~call.done
    /\ LET a == get_real_ip_addr(call.req, call.peer)
       IN  call' = [call EXCEPT !.done = TRUE,
                                !.outcome = IF a.panic THEN "panic_to_str" ELSE "ok",
                                !.addr = a.addr]
    /\ Idle

\* proxy_request_to_cf up to client.request(..).await
proxy_request_to_cf_send ==
    /\ call.fn = "proxy_request_to_cf" /\ ~call.done /\ call.outcome = NoneStr
    /\ LET t == get_proxy_req(call.req, call.keyEnv)
       IN  call' = [call EXCEPT !.done = (t.outcome # "ok"),
                                !.outcome = IF t.outcome = "ok" THEN "sent" ELSE t.outcome,
                                !.out = t.req]
    /\ Idle

\* proxy_request_to_cf, Ok(resp): the response is returned directly.
proxy_request_to_cf_ok(resp) ==
    /\ call.fn = "proxy_request_to_cf" /\ ~call.done /\ call.outcome = "sent"
    /\ LET res == proxy_request_to_cf(call.req, call.keyEnv, call.peer, UpOk(resp))
       IN  call' = [call EXCEPT !.done = TRUE, !.outcome = res.outcome, !.up = resp,
                                !.resp = res.resp, !.log = res.log]
    /\ Idle

\* proxy_request_to_cf, Err(err): a 500 is returned.
proxy_request_to_cf_err(err) ==
    /\ call.fn = "proxy_request_to_cf" /\ ~call.done /\ call.outcome = "sent"
    /\ LET res == proxy_request_to_cf(call.req, call.keyEnv, call.peer, UpErr(err))
       IN  call' = [call EXCEPT !.done = TRUE, !.outcome = res.outcome,
                                !.resp = res.resp, !.log = res.log]
    /\ Idle

\* The service of main called on one request, the upstream call coming to
\* `up`.
CallServiceFn(up) ==
    /\ call.fn = "service_fn" /\ ~call.done
    /\ LET res == service_fn(call.req, call.keyEnv, call.peer, up)
       IN  call' = [call EXCEPT !.done = TRUE, !.outcome = res.outcome, !.out = res.out,
                                !.up = up.resp, !.resp = res.resp, !.log = res.log]
    /\ Idle

NextCall ==
    \/ CallGetProxyReq
    \/ CallGetProxyRequest
    \/ CallGetRealIpAddr
    \/ proxy_request_to_cf_send
    \/ \E resp \in CallResponses : proxy_request_to_cf_ok(resp)
    \/ \E err \in CallErrors : proxy_request_to_cf_err(err)
    \/ \E up \in {UpOk(resp) : resp \in CallResponses} \cup {UpErr(err) : err \in CallErrors} :
          CallServiceFn(up)

LibSpec == InitCall /\ [][NextCall]_vars

\* ----------------------------------------------------------------- claims

Forwarded(r) == reqs[r].st \in {"forwarded", "done"}
ReqPeer(r) == conns[reqs[r].conn].peer

\* The cells the limiter granted to the key.
Admissions(p) ==
    LET RECURSIVE Sum(_)
        Sum(c) == IF c = 0 THEN 0
                  ELSE Sum(c - 1) + (IF LimiterKey(c) = p THEN conns[c].took ELSE 0)
    IN  Sum(Len(conns))

\* The requests of the key sent upstream.
Forwards(p) == Cardinality({r \in 1..Len(reqs) : ReqPeer(r) = p /\ Forwarded(r)})

\* C1: every request that is forwarded was admitted by the limiter on its own:
\* the forwards of a key never exceed the admissions the limiter granted to it.
C1_ForwardsWithinAdmissions == \A p \in Peers : Forwards(p) <= Admissions(p)

\* C2: of a burst of requests of one key in one instant, at most `rate` are
\* forwarded without waiting; the others are delayed.
C2_BurstWithinRate ==
    \A p \in Peers :
        Cardinality({r \in 1..Len(reqs) : ReqPeer(r) = p /\ reqs[r].fresh /\ Forwarded(r)})
            <= rate

\* C3: the key the limiter was consulted under for a request is the address
\* in its Fly-Client-IP header when that is a valid literal, the peer's
\* address otherwise.
C3_KeyIsRealIp ==
    \A r \in 1..Len(reqs) :
        ~get_real_ip_addr(reqs[r].inb, ReqPeer(r)).panic =>
            LimiterKey(reqs[r].conn) = get_real_ip_addr(reqs[r].inb, ReqPeer(r)).addr

Transformed ==
    /\ call.fn \in {"get_proxy_req", "get_proxy_request", "proxy_request_to_cf"}
    /\ call.outcome \in {"ok", "sent"} \cup CallErrors

\* C4: whatever scheme, authority or Host header the inbound request carried,
\* the outbound request has scheme https, authority api.curseforge.com and
\* the one Host header api.curseforge.com.
C4_UpstreamTargetFixed ==
    Transformed =>
        /\ call.out.uri.scheme = "https"
        /\ call.out.uri.authority = "api.curseforge.com"
        /\ call.out.headers["host"] = << <<"api.curseforge.com">> >>

C4_Witness ==
    /\ Transformed
    /\ call.req.uri.scheme = "http"
    /\ call.req.uri.authority = "evil.example"
    /\ call.req.headers["host"] = << <<"evil.example">> >>

\* C5: the outbound request carries x-api-key once, with the configured
\* secret, also when the inbound request carried x-api-key headers.
C5_ApiKeyIsTheSecret ==
    Transformed => call.out.headers["x-api-key"] = <<call.keyEnv.val>>

C5_Witness ==
    /\ Transformed
    /\ Len(call.req.headers["x-api-key"]) = 2
    /\ call.keyEnv = EnvVal(<<"key-B">>)

\* C6: the path and the query of the outbound request are those of the
\* inbound request.
C6_PathAndQueryKept ==
    Transformed =>
        /\ call.out.uri.path = call.req.uri.path
        /\ call.out.uri.query = call.req.uri.query
        /\ UriPath(call.out.uri) = UriPath(call.req.uri)
        /\ UriQuery(call.out.uri) = UriQuery(call.req.uri)

C6_Witness ==
    /\ Transformed
    /\ call.req.uri.authority = "evil.example"
    /\ call.req.uri.path = "/v1/games"
    /\ call.req.uri.query = "index=0"

Failed(r) == reqs[r].upstream \in UpstreamErrors

\* C7: a request whose upstream call fails is answered 500 with the fixed
\* text, which says nothing of the error, and the failure touches nothing
\* else: the listener, the limiter, the connections and the other requests
\* are as they were, so the server goes on serving.
C7_UpstreamFailureIsLocal ==
    /\ [](\A r \in 1..Len(reqs) :
            Failed(r) =>
                /\ reqs[r].resp.status = 500
                /\ reqs[r].resp.body = "Proxy Server Error while reading request"
                /\ reqs[r].resp.body # ""
                /\ phase = "listening")
    /\ [][\A r \in 1..Len(reqs) :
            (~Failed(r) /\ Failed(r)') =>
                /\ UNCHANGED <<env, phase, keyCell, rate, buckets, conns>>
                /\ Len(reqs') = Len(reqs)
                /\ \A q \in 1..Len(reqs) : q # r => reqs'[q] = reqs[q]
                /\ ENABLED (\E p \in Peers : Accept(p)) =>
                      (ENABLED (\E p \in Peers : Accept(p)))'
          ]_vars

\* A request is served after another one failed.
C7_Witness ==
    \E r, q \in 1..Len(reqs) :
        /\ r < q
        /\ Failed(r)
        /\ reqs[q].st = "done"
        /\ reqs[q].upstream = "ok"

\* C8: no state has the listener bound while CF_API_KEY is missing.
C8_NoListenerWithoutSecret == ~env.apiKey.set => phase # "listening"

PassedGate(c) == c <= Len(conns) /\ conns[c].st \in {"ready", "closed"}

\* C9: every connection accepted passes the gate, and every request is
\* transformed and forwarded.
C9_EveryRequestForwarded ==
    /\ \A c \in 1..MaxConns : (c <= Len(conns)) ~> PassedGate(c)
    /\ \A r \in 1..MaxReqs : (r <= Len(reqs)) ~> (r <= Len(reqs) /\ Forwarded(r))

\* The gate alone: every connection accepted is handed its service.
GateAlwaysPasses == \A c \in 1..MaxConns : (c <= Len(conns)) ~> PassedGate(c)

\* Values of REQ_LIMIT_PER_SEC that are no rate: zero, negative, no number.
DegenerateLimits ==
    { EnvVal(<<"0">>), EnvVal(<<"-", "1">>), EnvVal(<<"a", "b", "c">>), EnvVal(<<>>) }

\* C10: under a degenerate REQ_LIMIT_PER_SEC the process ends at startup, the
\* listener is never bound and nothing is handled; unset, the rate is 6.
C10_DegenerateRateRejected ==
    /\ env.reqLimit \in DegenerateLimits =>
          /\ phase \in {"init", "exited"}
          /\ conns = <<>> /\ reqs = <<>>
    /\ (~env.reqLimit.set /\ phase # "init") => (phase = "listening" /\ rate = 6)
    /\ phase = "listening" => rate >= 1

C10_Witness == env.reqLimit = EnvVal(<<"-", "1">>) /\ phase = "exited"

\* C11: a request whose target has no path is answered (the transformer's
\* MalformedRequest turned into a response); its task does not abort.
C11_MalformedTargetAnswered ==
    \A r \in 1..Len(reqs) :
        (~HasPath(reqs[r].inb.uri) /\ reqs[r].st # "pending") =>
            (reqs[r].st = "done" /\ reqs[r].resp # NoResp)

\* C12: when the upstream call succeeds, proxy_request_to_cf returns the
\* upstream's response as it is: status, headers and body, whatever the
\* status.
C12_ResponseRelayedUnchanged ==
    (call.fn = "proxy_request_to_cf" /\ call.outcome = "ok") =>
        /\ call.resp.status = call.up.status
        /\ call.resp.headers = call.up.headers
        /\ call.resp.body = call.up.body

\* An upstream 500 is relayed with the upstream's own body.
C12_Witness ==
    /\ call.fn = "proxy_request_to_cf" /\ call.outcome = "ok"
    /\ call.up.status = 500
    /\ call.resp.body = "upstream error"

\* The secrets a run can be configured with: values that are header values.
Secrets == {k \in CallKeyEnvs : k.set /\ HeaderValueFromStr(k.val).ok}

\* What the upstream call of the call at hand came to.
CallUp == IF call.outcome \in CallErrors THEN UpErr(call.outcome) ELSE UpOk(call.up)

\* The same call made in a run whose secret is k.
OtherRun(k) ==
    IF call.fn = "service_fn"
    THEN service_fn(call.req, k, call.peer, CallUp)
    ELSE proxy_request_to_cf(call.req, k, call.peer, CallUp)

WithoutApiKey(req) == [req EXCEPT !.headers["x-api-key"] = <<>>]

\* C13: two runs that differ only in the secret and see the same request and
\* the same upstream outcome make the same log record and the same response,
\* and send the same request but for its x-api-key header.
C13_SecretNotObservable ==
    (call.fn \in {"proxy_request_to_cf", "service_fn"} /\ call.done
        /\ call.keyEnv \in Secrets) =>
        \A k \in Secrets :
            /\ OtherRun(k).log = call.log
            /\ OtherRun(k).resp = call.resp
            /\ WithoutApiKey(OtherRun(k).out) = WithoutApiKey(call.out)

\* An upstream failure was logged and answered in a run with secret key-B.
C13_Witness ==
    /\ call.fn = "proxy_request_to_cf" /\ call.done
    /\ call.keyEnv = EnvVal(<<"key-B">>)
    /\ call.outcome \in CallErrors
    /\ call.log.kind = "failed"
    /\ call.resp.status = 500

\* C14: check_key only observes: a connection whose service is handed out has
\* taken exactly one cell from its key's bucket, the one until_key_ready took.
C14_CheckKeyTakesNothing ==
    \A c \in 1..Len(conns) : conns[c].st = "ready" => conns[c].took = 1

\* C16: "Rate limit was hit" is logged for a connection exactly when its key's
\* bucket held no cell when it arrived at the gate.
C16_HitLoggedIffExhaustedOnArrival ==
    \A c \in 1..Len(conns) : conns[c].st = "ready" => (conns[c].hit <=> conns[c].delayed)

\* C15 as stated: no connection spends more than one second (`rate` ticks)
\* asleep at the gate.
C15_WaitWithinJitterCeiling ==
    \A c \in 1..Len(conns) : conns[c].waited <= rate

\* C15, amended: one sleep at the gate lasts at most the time to the key's
\* next cell (one tick) and one second of jitter; it is the sleep that is
\* bounded, not the time at the gate.
C15_EachSleepWithinCellAndJitter ==
    \A c \in 1..Len(conns) : conns[c].sleep <= 1 + rate

\* A connection at the gate sleeps the longest sleep there is.
C15_Witness ==
    \E c \in 1..Len(conns) :
        /\ conns[c].st = "gate" /\ conns[c].delayed
        /\ conns[c].sleep = 1 + rate

\* The connection is at the gate and about to ask the limiter.
AtGateAwake(c) == conns[c].st = "gate" /\ conns[c].sleep = 0

ClientIpParses ==
    LET h == HeaderGet(call.req.headers, "fly-client-ip")
    IN  /\ h.some
        /\ ToStr(h.val).ok
        /\ ParseIpv4(h.val).ok \/ ParseIpv6(h.val).ok

\* C18: get_real_ip_addr returns for every request and every Fly-Client-IP
\* value, and returns remote_addr unless the value parses as an address.
C18_RealIpAddrTotal ==
    (call.fn = "get_real_ip_addr" /\ call.done) =>
        /\ call.outcome = "ok"
        /\ ~ClientIpParses => call.addr = call.peer

\* The fall-back alone: a call that returns gives remote_addr unless the
\* value parses.
RealIpAddrFallsBack ==
    (call.fn = "get_real_ip_addr" /\ call.done /\ call.outcome = "ok") =>
        (~ClientIpParses => call.addr = call.peer)

\* C19: the outbound request has the method, the body and every header other
\* than Host and x-api-key of the inbound request.
C19_RestOfRequestKept ==
    Transformed =>
        /\ call.out.method = call.req.method
        /\ call.out.body = call.req.body
        /\ \A n \in HeaderNames \ {"host", "x-api-key"} :
              call.out.headers[n] = call.req.headers[n]

\* A POST with a body, an Accept and a Fly-Client-IP header was transformed.
C19_Witness ==
    /\ Transformed
    /\ call.req.method = "POST"
    /\ call.req.body = "payload"
    /\ call.req.headers["accept"] = << <<"text/plain">> >>
    /\ call.req.headers["fly-client-ip"] = <<ClientIpV6>>

====
